---------------------------- MODULE Spec2Model ----------------------------
(***************************************************************************)
(* State-machine model of src/editor.py (CodeEditor, a Textual TUI editor). *)
(*                                                                         *)
(* Text is a sequence of one-character strings.  The editing surface       *)
(* (TextArea) is represented by its text and cursor; the handlers of       *)
(* CodeEditor are the actions.  One event is processed at a time.           *)
(*   - A text change made by typing is delivered as one Changed event: the *)
(*     new text, the cursor, then the handler.                              *)
(*   - editor.undo() and editor.redo() change the surface text inside       *)
(*     action_undo and action_redo, from the surface's edit history; the    *)
(*     Changed event for the text they leave is handled at a later step.    *)
(*   - An assignment `editor.text = x' made by the application replaces    *)
(*     the surface text (cursor back to (0,0)); the handlers run only for   *)
(*     the events the surface reports, and a Changed event carrying the     *)
(*     same text may follow at any later step.                              *)
(*   - SearchModal and OpenFileModal are ModalScreens. The routing of      *)
(*     events while one is open is the framework's and is not in the        *)
(*     source; it is modelled from the specification (MainActive,           *)
(*     DialogActive, Dismiss).                                              *)
(***************************************************************************)
EXTENDS Integers, Sequences, FiniteSets, TLC

VARIABLES
    phase,             \* "constructed" (after __init__), "running", "exited"
    file_path,         \* self.file_path
    original_content,  \* self.original_content (the baseline)
    current_content,   \* self.current_content
    language,          \* self.language
    search_term,       \* self.search_term
    editor_text,       \* TextArea.text
    editor_cursor,     \* TextArea.cursor_location, <<line, col>>, zero-based
    undo_stack,        \* TextArea.history: the texts undo() goes back to,
                       \* the most recent last
    redo_stack,        \* TextArea.history: the texts redo() goes forward to
    sb_file_path,      \* StatusBar.file_path
    sb_cursor_line,    \* StatusBar.cursor_line
    sb_cursor_col,     \* StatusBar.cursor_col
    sb_language,       \* StatusBar.language
    sb_modified,       \* StatusBar.modified
    ln_lines_count,    \* LineNumbers.lines_count
    ln_current_line,   \* LineNumbers.current_line
    modal,             \* top of the screen stack: "none", "search", "open"
    fs,                \* the files the editor reads and writes
    last               \* the event processed last: ev, the branch its handler
                       \* took (its notification); cb, the results it handed
                       \* to the dialog's completion callback, in order

vars == <<phase, file_path, original_content, current_content, language,
          search_term, editor_text, editor_cursor, undo_stack, redo_stack,
          sb_file_path,
          sb_cursor_line, sb_cursor_col, sb_language, sb_modified,
          ln_lines_count, ln_current_line, modal, fs, last>>

hist_vars == <<undo_stack, redo_stack>>
doc_vars == <<file_path, original_content, current_content, language,
              search_term, editor_text, editor_cursor, hist_vars>>
sb_vars == <<sb_file_path, sb_cursor_line, sb_cursor_col, sb_language,
             sb_modified>>
ln_vars == <<ln_lines_count, ln_current_line>>

---------------------------------------------------------------------------
(* Bounds and input universes *)

MaxLen == 1

(* the number of edits the surface's history keeps for undo *)
MaxCheckpoints == 1

NL == "\n"

Alphabet == {"b", NL}

RECURSIVE SeqsUpTo(_, _)
SeqsUpTo(S, n) ==
    IF n = 0 THEN {<<>>}
    ELSE LET shorter == SeqsUpTo(S, n - 1)
         IN  shorter \cup {Append(s, x) : s \in shorter, x \in S}

Texts == SeqsUpTo(Alphabet, MaxLen)

Terms == {<<>>, <<"b">>}

NoPath == "<None>"

FsPaths == {"f.py", "untitled.txt"}

ArgPaths == {NoPath, "f.py", "untitled.txt", "Untitled"}

PathInputs == {"", "f.py", "untitled.txt", "Untitled"}

Scenario == <<"a", NL, "b", NL, "b", "b", NL>>

SearchTexts ==
    {Scenario, <<"b", "a", "b">>, <<"a", "b", NL, "a">>, <<"B", NL, "b">>}

SearchTerms == {<<>>, <<"b">>, <<"a", "b">>}

---------------------------------------------------------------------------
(* Pure helpers *)

(* an event that completes no dialog *)
Event(ev) == [ev |-> ev, cb |-> <<>>]

(* the results a dialog is dismissed with: Optional[str] *)
None == [some |-> FALSE, val |-> "None"]

Some(x) == [some |-> TRUE, val |-> x]

Min(S) == CHOOSE x \in S : \A y \in S : x <= y

Max2(a, b) == IF a >= b THEN a ELSE b

Truthy(p) == p # NoPath /\ p # ""

RECURSIVE Split(_)
Split(s) ==
    LET nls == {i \in 1..Len(s) : s[i] = NL}
    IN  IF nls = {} THEN <<s>>
        ELSE LET i == Min(nls)
             IN  <<SubSeq(s, 1, i - 1)>> \o Split(SubSeq(s, i + 1, Len(s)))

Find(line, term, start) ==
    LET hits == {k \in start..(Len(line) - Len(term)) :
                    SubSeq(line, k + 1, k + Len(term)) = term}
    IN  IF hits = {} THEN -1 ELSE Min(hits)

(* the cursor positions of text t the surface can report, columns up to   *)
(* maxcol                                                                   *)
Positions(t, maxcol) ==
    LET lines == Split(t)
    IN  {p \in (0..(Len(lines) - 1)) \X (0..maxcol) :
            p[2] <= Len(lines[p[1] + 1])}

ErrorLoadingText ==
  <<"#", " ", "E", "r", "r", "o", "r", " ", "l", "o", "a", "d", "i", "n",
    "g", " ", "f", "i", "l", "e", ":", " ", "[", "E", "r", "r", "n", "o",
    " ", "2", "1", "]", " ", "I", "s", " ", "a", " ", "d", "i", "r", "e",
    "c", "t", "o", "r", "y", ":", " ", "'", "u", "n", "t", "i", "t", "l",
    "e", "d", ".", "t", "x", "t", "'", NL, "#", " ", "S", "t", "a", "r",
    "t", "i", "n", "g", " ", "w", "i", "t", "h", " ", "e", "m", "p", "t",
    "y", " ", "f", "i", "l", "e">>

Exists(p) == p \in DOMAIN fs /\ fs[p].kind # "missing"

CanRead(p) == fs[p].kind \in {"file", "rofile"}

CanWrite(p) == fs[p].kind \in {"file", "missing"}

(* StatusBar._update_status, the file name shown: the paths of the model   *)
(* have no directory part, so os.path.basename leaves them as they are      *)
StatusFilename == IF sb_file_path = "" THEN "Untitled" ELSE sb_file_path

(* _detect_language for the paths of the model: pygments names the lexer  *)
(* of *.py "Python" and the lexer of *.txt "Text only"                      *)
DetectLanguage(p) == IF p = "f.py" THEN "Python" ELSE "Text only"

IsModified(cur, orig) == cur # orig

LineCount(t) == Max2(1, Len(Split(t)))

---------------------------------------------------------------------------
(* Initial state: after CodeEditor.__init__ and widget construction *)

(* The files at startup: f.py holds text and is writable or read-only;     *)
(* untitled.txt is absent or is a directory (which exists, and can be       *)
(* neither read nor written as a file)                                      *)
Disk(fkind, ftext, ukind) ==
    [p \in FsPaths |-> IF p = "f.py" THEN [kind |-> fkind, content |-> ftext]
                       ELSE [kind |-> ukind, content |-> <<>>]]

InitWith(args, disks) ==
    /\ phase = "constructed"
    /\ file_path \in args
    /\ original_content = <<>>
    /\ current_content = <<>>
    /\ language = "Text"
    /\ search_term = <<>>
    /\ editor_text = <<>>
    /\ editor_cursor = <<0, 0>>
    /\ undo_stack = <<>>
    /\ redo_stack = <<>>
    /\ sb_file_path = ""
    /\ sb_cursor_line = 1
    /\ sb_cursor_col = 1
    /\ sb_language = "Text"
    /\ sb_modified = FALSE
    /\ ln_lines_count = 1
    /\ ln_current_line = 1
    /\ modal = "none"
    /\ fs \in disks
    /\ last = Event("init")

Init ==
    InitWith(ArgPaths, {Disk("rofile", <<"b">>, "missing"),
                        Disk("file", <<"b">>, "dir")})

---------------------------------------------------------------------------
(* CodeEditor._load_file *)

(* `editor.text = x' replaces the document of the surface: its edit       *)
(* history starts empty again                                               *)
HistoryCleared == undo_stack' = <<>> /\ redo_stack' = <<>>

(* the try branch: the file was read *)
LoadSucceeded(p, content, ev) ==
    /\ original_content' = content
    /\ current_content' = content
    /\ file_path' = p
    /\ editor_text' = content
    /\ editor_cursor' = <<0, 0>>
    /\ HistoryCleared
    /\ sb_file_path' = p
    /\ language' = DetectLanguage(p)
    /\ sb_language' = DetectLanguage(p)
    /\ ln_lines_count' = Len(Split(content))
    /\ ln_current_line' = 1
    /\ last' = ev
    /\ UNCHANGED <<search_term, sb_cursor_line, sb_cursor_col, sb_modified, fs>>

(* the except branch: open() or read() raised *)
LoadFailed(p, ev) ==
    /\ editor_text' = ErrorLoadingText
    /\ editor_cursor' = <<0, 0>>
    /\ HistoryCleared
    /\ sb_file_path' = (IF Truthy(p) THEN p ELSE "Untitled")
    /\ last' = ev
    /\ UNCHANGED <<file_path, original_content, current_content, language,
                   search_term, sb_cursor_line, sb_cursor_col, sb_language,
                   sb_modified, ln_vars, fs>>

LoadFile(p, okEvent, failEvent) ==
    IF CanRead(p)
    THEN LoadSucceeded(p, fs[p].content, okEvent)
    ELSE LoadFailed(p, failEvent)

(* mutant: a path that does not exist is dropped at startup *)
OnMountDropsMissingPath ==
    /\ phase = "constructed"
    /\ phase' = "running"
    /\ UNCHANGED modal
    /\ IF Truthy(file_path) /\ Exists(file_path)
       THEN LoadFile(file_path, Event("mount_loaded"), Event("mount_loadfail"))
       ELSE /\ file_path' = NoPath
            /\ sb_file_path' = "Untitled"
            /\ editor_text' = <<>>
            /\ editor_cursor' = <<0, 0>>
            /\ HistoryCleared
            /\ last' = Event("mount_empty")
            /\ UNCHANGED <<original_content, current_content, language,
                           search_term, sb_cursor_line, sb_cursor_col,
                           sb_language, sb_modified, ln_vars, fs>>

(* CodeEditor.on_mount *)
OnMount ==
    /\ phase = "constructed"
    /\ phase' = "running"
    /\ UNCHANGED modal
    /\ IF Truthy(file_path) /\ Exists(file_path)
       THEN LoadFile(file_path, Event("mount_loaded"), Event("mount_loadfail"))
       ELSE /\ sb_file_path' = (IF Truthy(file_path) THEN file_path
                                ELSE "Untitled")
            /\ editor_text' = <<>>
            /\ editor_cursor' = <<0, 0>>
            /\ HistoryCleared
            /\ last' = Event("mount_empty")
            /\ UNCHANGED <<file_path, original_content, current_content,
                           language, search_term, sb_cursor_line,
                           sb_cursor_col, sb_language, sb_modified, ln_vars,
                           fs>>

(* Event routing. Which handler an event reaches is decided by the        *)
(* framework's screen stack, not by the handlers of src/editor.py, which    *)
(* test nothing themselves. It is taken from the specification (4.5, 5):    *)
(* while a dialog is open the main editor's key routing is off, and a       *)
(* dialog receives its submit and escape only while it is open.             *)

(* the main screen receives input: the app runs and no dialog is open *)
MainActive == phase = "running" /\ modal = "none"

(* dialog d receives input: the app runs and d is the open dialog *)
DialogActive(d) == phase = "running" /\ modal = d

(* the history after an edit that replaced text old: old is what undo()   *)
(* goes back to, the oldest entry is dropped when the history is full, and  *)
(* nothing is left to redo                                                  *)
Checkpoint(old) ==
    LET s == Append(undo_stack, old)
    IN  /\ undo_stack' = (IF Len(s) > MaxCheckpoints THEN Tail(s) ELSE s)
        /\ redo_stack' = <<>>

(* CodeEditor.on_text_area_changed, for the Changed event of an edit made  *)
(* on the surface (t differs from the text so far) or of the text the       *)
(* surface already holds                                                    *)
TextAreaChanged(t, cur) ==
    /\ MainActive
    /\ editor_text' = t
    /\ editor_cursor' = cur
    /\ IF t # editor_text THEN Checkpoint(editor_text)
       ELSE UNCHANGED hist_vars
    /\ current_content' = t
    /\ sb_modified' = IsModified(t, original_content)
    /\ ln_lines_count' = LineCount(t)
    /\ ln_current_line' = cur[1] + 1
    /\ last' = Event("changed")
    /\ UNCHANGED <<phase, file_path, original_content, language, search_term,
                   sb_file_path, sb_cursor_line, sb_cursor_col, sb_language,
                   modal, fs>>

(* CodeEditor.on_text_area_cursor_moved *)
CursorMoved(cur) ==
    /\ MainActive
    /\ editor_cursor' = cur
    /\ sb_cursor_line' = cur[1] + 1
    /\ sb_cursor_col' = cur[2] + 1
    /\ ln_lines_count' = LineCount(editor_text)
    /\ ln_current_line' = cur[1] + 1
    /\ last' = Event("moved")
    /\ UNCHANGED <<phase, file_path, original_content, current_content,
                   language, search_term, editor_text, hist_vars,
                   sb_file_path, sb_language, sb_modified, modal, fs>>

(* CodeEditor.action_save, the substitution of the default filename *)
SavePath(p) == IF ~Truthy(p) \/ p = "Untitled" THEN "untitled.txt" ELSE p

(* mutant: the write succeeds but the baseline is not synchronised *)
SaveSucceededKeepsBaseline(save_path) ==
    /\ fs' = [fs EXCEPT ![save_path] =
                 [kind |-> "file", content |-> editor_text]]
    /\ sb_modified' = FALSE
    /\ sb_file_path' = save_path
    /\ last' = Event("save_ok")
    /\ UNCHANGED original_content

(* CodeEditor.action_save, the try branch: the file was written *)
SaveSucceeded(save_path) ==
    /\ fs' = [fs EXCEPT ![save_path] =
                 [kind |-> "file", content |-> editor_text]]
    /\ original_content' = editor_text
    /\ sb_modified' = FALSE
    /\ sb_file_path' = save_path
    /\ last' = Event("save_ok")

(* CodeEditor.action_save, the except branch: open() or write() raised *)
SaveFailed ==
    /\ last' = Event("save_fail")
    /\ UNCHANGED <<fs, original_content, sb_modified, sb_file_path>>

(* CodeEditor.action_save *)
ActionSave ==
    /\ MainActive
    /\ LET save_path == SavePath(file_path)
       IN  /\ file_path' = save_path
           /\ IF CanWrite(save_path)
              THEN SaveSucceeded(save_path)
              ELSE SaveFailed
    /\ UNCHANGED <<phase, current_content, language, search_term, editor_text,
                   editor_cursor, hist_vars, sb_cursor_line, sb_cursor_col,
                   sb_language, ln_vars, modal>>

(* TextArea.undo() and TextArea.redo(): the surface text becomes the last  *)
(* entry of from, which is removed, and the text so far is added to onto;   *)
(* the cursor is then at a position of the new text. With nothing in from   *)
(* the surface is left as it is.                                            *)
HistoryStep(from, onto) ==
    IF from = <<>>
    THEN /\ UNCHANGED <<editor_text, editor_cursor>>
         /\ from' = from /\ onto' = onto
    ELSE /\ editor_text' = from[Len(from)]
         /\ \E cur \in Positions(from[Len(from)], MaxLen) : editor_cursor' = cur
         /\ from' = SubSeq(from, 1, Len(from) - 1)
         /\ onto' = Append(onto, editor_text)

(* CodeEditor.action_undo: editor.undo(), then notify; the handlers of the  *)
(* Changed event have not run when it returns                               *)
ActionUndo ==
    /\ MainActive
    /\ HistoryStep(undo_stack, redo_stack)
    /\ last' = Event("undo")
    /\ UNCHANGED <<phase, file_path, original_content, current_content,
                   language, search_term, sb_vars, ln_vars, modal, fs>>

(* CodeEditor.action_redo: editor.redo(), then notify *)
ActionRedo ==
    /\ MainActive
    /\ HistoryStep(redo_stack, undo_stack)
    /\ last' = Event("redo")
    /\ UNCHANGED <<phase, file_path, original_content, current_content,
                   language, search_term, sb_vars, ln_vars, modal, fs>>

(* mutant: the warning is given but the baseline is not reset *)
QuitWarnKeepsBaseline ==
    /\ last' = Event("quit_warn")
    /\ UNCHANGED <<phase, original_content>>

(* CodeEditor.action_quit, unsaved changes: warn and reset the baseline *)
QuitWarn ==
    /\ original_content' = editor_text
    /\ last' = Event("quit_warn")
    /\ UNCHANGED phase

(* CodeEditor.action_quit, no unsaved changes: self.exit() *)
QuitExit ==
    /\ phase' = "exited"
    /\ last' = Event("quit_exit")
    /\ UNCHANGED original_content

(* CodeEditor.action_quit *)
ActionQuit ==
    /\ MainActive
    /\ IF editor_text # original_content THEN QuitWarn ELSE QuitExit
    /\ UNCHANGED <<file_path, current_content, language, search_term,
                   editor_text, editor_cursor, hist_vars, sb_vars, ln_vars,
                   modal, fs>>

---------------------------------------------------------------------------
(* Search *)

NotFound == <<-1, -1>>

(* mutant: the scan of the cursor's line starts after the cursor *)
SearchStartAfterCursor(i, line, col) == IF i = line THEN col + 1 ELSE 0

(* the column the scan of line i starts at *)
SearchStart(i, line, col) == IF i = line THEN col ELSE 0

(* mutant: the wrap-around pass takes the last matching line, not the first *)
FindNextWrapsBackwards(text, cur, term) ==
    LET lines == Split(text)
        line == cur[1]
        col == cur[2]
        fwd == {i \in line..(Len(lines) - 1) :
                   Find(lines[i + 1], term, SearchStart(i, line, col)) # -1}
        wrap == {i \in 0..(line - 1) : Find(lines[i + 1], term, 0) # -1}
    IN  IF fwd # {}
        THEN LET i == Min(fwd)
             IN  <<i, Find(lines[i + 1], term, SearchStart(i, line, col))>>
        ELSE IF wrap # {}
        THEN LET i == CHOOSE m \in wrap : \A k \in wrap : k <= m
             IN  <<i, Find(lines[i + 1], term, 0)>>
        ELSE NotFound

(* mutant: the wrap-around pass scans the cursor's line as well *)
FindNextWrapsOntoCursorLine(text, cur, term) ==
    LET lines == Split(text)
        line == cur[1]
        col == cur[2]
        fwd == {i \in line..(Len(lines) - 1) :
                   Find(lines[i + 1], term, SearchStart(i, line, col)) # -1}
        wrap == {i \in 0..line : Find(lines[i + 1], term, 0) # -1}
    IN  IF fwd # {}
        THEN LET i == Min(fwd)
             IN  <<i, Find(lines[i + 1], term, SearchStart(i, line, col))>>
        ELSE IF wrap # {}
        THEN LET i == Min(wrap) IN <<i, Find(lines[i + 1], term, 0)>>
        ELSE NotFound

(* the two loops of CodeEditor._perform_search: the position the cursor is  *)
(* moved to, or NotFound                                                    *)
FindNext(text, cur, term) ==
    LET lines == Split(text)
        line == cur[1]
        col == cur[2]
        fwd == {i \in line..(Len(lines) - 1) :
                   Find(lines[i + 1], term, SearchStart(i, line, col)) # -1}
        wrap == {i \in 0..(line - 1) : Find(lines[i + 1], term, 0) # -1}
    IN  IF fwd # {}
        THEN LET i == Min(fwd)
             IN  <<i, Find(lines[i + 1], term, SearchStart(i, line, col))>>
        ELSE IF wrap # {}
        THEN LET i == Min(wrap) IN <<i, Find(lines[i + 1], term, 0)>>
        ELSE NotFound

(* mutant: a search without a match sends the cursor to the start *)
PerformSearchHomesOnMiss(term, cb) ==
    LET hit == FindNext(editor_text, editor_cursor, term)
    IN  IF hit # NotFound
        THEN /\ editor_cursor' = hit
             /\ last' = [ev |-> "search_found", cb |-> cb]
        ELSE /\ editor_cursor' = <<0, 0>>
             /\ last' = [ev |-> "search_notfound", cb |-> cb]

(* mutant: a match leaves the cursor behind the matched text *)
PerformSearchLandsAfterMatch(term, cb) ==
    LET hit == FindNext(editor_text, editor_cursor, term)
    IN  IF hit # NotFound
        THEN /\ editor_cursor' = <<hit[1], hit[2] + Len(term)>>
             /\ last' = [ev |-> "search_found", cb |-> cb]
        ELSE /\ UNCHANGED editor_cursor
             /\ last' = [ev |-> "search_notfound", cb |-> cb]

(* CodeEditor._perform_search; cb are the callback results of the event *)
PerformSearch(term, cb) ==
    LET hit == FindNext(editor_text, editor_cursor, term)
    IN  IF hit # NotFound
        THEN /\ editor_cursor' = hit
             /\ last' = [ev |-> "search_found", cb |-> cb]
        ELSE /\ UNCHANGED editor_cursor
             /\ last' = [ev |-> "search_notfound", cb |-> cb]

(* self.dismiss(result) as the dialog handlers call it. What a dismissal  *)
(* does is the framework's; from the specification (4.5): the dialog is     *)
(* closed and the completion callback given to push_screen is invoked with  *)
(* the result. The value is the sequence of results the callback receives.  *)
Dismiss(result) == <<result>>

(* CodeEditor.action_search *)
ActionSearch ==
    /\ MainActive
    /\ modal' = "search"
    /\ last' = Event("search_open")
    /\ UNCHANGED <<phase, doc_vars, sb_vars, ln_vars, fs>>

(* SearchModal.on_input_submitted, then handle_search_result(value) *)
SearchSubmit(term) ==
    /\ DialogActive("search")
    /\ modal' = "none"
    /\ LET cb == Dismiss(Some(term))
       IN  IF term # <<>>
           THEN search_term' = term /\ PerformSearch(term, cb)
           ELSE /\ UNCHANGED <<search_term, editor_cursor>>
                /\ last' = [ev |-> "search_empty", cb |-> cb]
    /\ UNCHANGED <<phase, file_path, original_content, current_content,
                   language, editor_text, hist_vars, sb_vars, ln_vars, fs>>

(* SearchModal.on_key (escape), then handle_search_result(None) *)
SearchCancel ==
    /\ DialogActive("search")
    /\ modal' = "none"
    /\ last' = [ev |-> "search_cancel", cb |-> Dismiss(None)]
    /\ UNCHANGED <<phase, doc_vars, sb_vars, ln_vars, fs>>

---------------------------------------------------------------------------
(* Open file *)

(* CodeEditor.action_open_file *)
ActionOpenFile ==
    /\ MainActive
    /\ modal' = "open"
    /\ last' = Event("open_open")
    /\ UNCHANGED <<phase, doc_vars, sb_vars, ln_vars, fs>>

(* mutant: a path that does not exist starts an empty document *)
OpenNotFoundStartsEmpty(cb) ==
    /\ last' = [ev |-> "open_notfound", cb |-> cb]
    /\ editor_text' = <<>>
    /\ editor_cursor' = <<0, 0>>
    /\ HistoryCleared
    /\ UNCHANGED <<file_path, original_content, current_content, language,
                   search_term, sb_vars, ln_vars, fs>>

(* handle_open_result, the path does not exist: notify only *)
OpenNotFound(cb) ==
    /\ last' = [ev |-> "open_notfound", cb |-> cb]
    /\ UNCHANGED <<doc_vars, sb_vars, ln_vars, fs>>

(* OpenFileModal.on_input_submitted, then handle_open_result(value) *)
OpenSubmit(p) ==
    /\ DialogActive("open")
    /\ modal' = "none"
    /\ UNCHANGED phase
    /\ LET cb == Dismiss(Some(p))
       IN  IF ~Truthy(p)
           THEN /\ last' = [ev |-> "open_empty", cb |-> cb]
                /\ UNCHANGED <<doc_vars, sb_vars, ln_vars, fs>>
           ELSE IF Exists(p)
           THEN LoadFile(p, [ev |-> "open_loaded", cb |-> cb],
                         [ev |-> "open_loadfail", cb |-> cb])
           ELSE OpenNotFound(cb)

(* OpenFileModal.on_key (escape), then handle_open_result(None) *)
OpenCancel ==
    /\ DialogActive("open")
    /\ modal' = "none"
    /\ last' = [ev |-> "open_cancel", cb |-> Dismiss(None)]
    /\ UNCHANGED <<phase, doc_vars, sb_vars, ln_vars, fs>>

---------------------------------------------------------------------------
Next ==
    \/ OnMount
    \/ \E t \in Texts \cup {editor_text} :
          \E cur \in Positions(t, MaxLen) : TextAreaChanged(t, cur)
    \/ \E cur \in Positions(editor_text, MaxLen) : CursorMoved(cur)
    \/ ActionSave
    \/ ActionUndo
    \/ ActionRedo
    \/ ActionQuit
    \/ ActionSearch
    \/ \E term \in Terms : SearchSubmit(term)
    \/ SearchCancel
    \/ ActionOpenFile
    \/ \E p \in PathInputs : OpenSubmit(p)
    \/ OpenCancel

Spec == Init /\ [][Next]_vars

(* The search scenarios: a file is loaded at startup, the cursor moves and  *)
(* searches are made                                                         *)
InitSearch ==
    InitWith({"f.py"}, {Disk("file", t, "missing") : t \in SearchTexts})

NextSearch ==
    \/ OnMount
    \/ \E cur \in Positions(editor_text, Len(editor_text)) : CursorMoved(cur)
    \/ ActionSearch
    \/ \E term \in SearchTerms : SearchSubmit(term)
    \/ SearchCancel

SpecSearch == InitSearch /\ [][NextSearch]_vars

(* Startup with a path argument that names no file: new.txt and the       *)
(* literal name Untitled do not exist                                       *)
StartupDisk ==
    Disk("rofile", <<"b">>, "missing") @@
    ("new.txt" :> [kind |-> "missing", content |-> <<>>])

InitStartup == InitWith({"new.txt", "Untitled"}, {StartupDisk})

SpecStartup == InitStartup /\ [][Next]_vars

---------------------------------------------------------------------------
(* Properties *)

(* The document's content is the text the editing surface holds; the flag   *)
(* is exact when it says whether that text differs from the baseline        *)
FlagExact == sb_modified <=> (editor_text # original_content)

CountNewlines(s) == Cardinality({i \in 1..Len(s) : s[i] = NL})

(* the events of a load: _load_file read the file, or it raised *)
LoadEvents == {"mount_loaded", "open_loaded", "mount_loadfail", "open_loadfail"}

C3_SaveSyncsBaseline ==
    [][last'.ev = "save_ok" =>
          /\ editor_text' = editor_text
          /\ original_content' = editor_text
          /\ ~sb_modified'
          /\ fs'[file_path'] = [kind |-> "file", content |-> editor_text]
          /\ (file_path = NoPath =>
                 /\ file_path' = "untitled.txt"
                 /\ sb_file_path' = "untitled.txt")]_vars

C3_Witness ==
    /\ last.ev = "save_ok"
    /\ file_path = "untitled.txt"
    /\ fs["untitled.txt"] = [kind |-> "file", content |-> <<"b">>]
    /\ original_content = <<"b">>
    /\ ~sb_modified

(* C4: a Save that fails to write leaves content, baseline, backing path  *)
(* and modified flag as they were, and the process does not exit.           *)
(* Violated: with no path set, action_save adopts untitled.txt before it    *)
(* tries to write, and keeps it when the write fails.                       *)
C4_FailedSaveChangesNothing ==
    [][last'.ev = "save_fail" =>
          /\ UNCHANGED <<editor_text, original_content, file_path,
                         sb_modified>>
          /\ phase' = "running"]_vars

(* C5: when loading path p fails to read, the content becomes the error    *)
(* message and the backing path becomes p: the path a following Save        *)
(* writes to and the path of the status bar are both p; no exit.            *)
(* Violated: the except branch of _load_file sets the status bar's path     *)
(* and leaves self.file_path as it was.                                     *)
C5_FailedLoadAdoptsPath ==
    /\ last.ev = "mount_loadfail" =>
           /\ editor_text = ErrorLoadingText
           /\ sb_file_path = file_path
           /\ SavePath(file_path) = file_path
           /\ phase = "running"
    /\ last.ev = "open_loadfail" =>
           /\ editor_text = ErrorLoadingText
           /\ sb_file_path = last.cb[1].val
           /\ SavePath(file_path) = last.cb[1].val
           /\ phase = "running"

(* C6: a Quit while the content differs from the baseline warns, does not  *)
(* exit and sets the baseline to the content, leaving the main screen       *)
(* live; a Quit while they are equal exits; so the Quit that follows a      *)
(* warning with no event in between exits.                                  *)
C6_QuitProtocol ==
    [][/\ (last'.ev = "quit_warn" =>
              /\ editor_text # original_content
              /\ editor_text' = editor_text
              /\ original_content' = editor_text
              /\ MainActive')
       /\ (last'.ev = "quit_exit" =>
              /\ editor_text = original_content
              /\ phase' = "exited")
       /\ (last.ev = "quit_warn" /\ last'.ev \in {"quit_warn", "quit_exit"} =>
              phase' = "exited")]_vars

C6_Witness ==
    /\ phase = "exited"
    /\ last.ev = "quit_exit"
    /\ sb_modified
    /\ fs["f.py"].content # editor_text

(* a search for term is submitted with the cursor at from in text *)
SearchedFrom(text, from, term) ==
    /\ modal = "search"
    /\ editor_text = text
    /\ editor_cursor = from
    /\ search_term' = term
    /\ last'.ev \in {"search_found", "search_notfound"}

FoundAt(pos) == last'.ev = "search_found" /\ editor_cursor' = pos

(* C7 as claimed: in "a\nb\nbb\n" a search for "b" from (0,0) finds (1,0),  *)
(* from (1,1) finds (2,0), and from (2,1) wraps around and finds (1,0).     *)
C7_ScenarioAsClaimed ==
    [][/\ (SearchedFrom(Scenario, <<0, 0>>, <<"b">>) => FoundAt(<<1, 0>>))
       /\ (SearchedFrom(Scenario, <<1, 1>>, <<"b">>) => FoundAt(<<2, 0>>))
       /\ (SearchedFrom(Scenario, <<2, 1>>, <<"b">>) => FoundAt(<<1, 0>>))]_vars

(* C7, amended: in "a\nb\nbb\n" a search for "b" from (0,0) finds (1,0),    *)
(* from (1,1) finds (2,0), from (2,1) finds (2,1), the second "b" of line   *)
(* 2, and from (2,2) wraps around and finds (1,0).                          *)
C7_Scenario ==
    [][/\ (SearchedFrom(Scenario, <<0, 0>>, <<"b">>) => FoundAt(<<1, 0>>))
       /\ (SearchedFrom(Scenario, <<1, 1>>, <<"b">>) => FoundAt(<<2, 0>>))
       /\ (SearchedFrom(Scenario, <<2, 1>>, <<"b">>) => FoundAt(<<2, 1>>))
       /\ (SearchedFrom(Scenario, <<2, 2>>, <<"b">>) => FoundAt(<<1, 0>>))]_vars

(* the search wrapped from (2,2), which the status bar still shows *)
C7_Witness ==
    /\ last.ev = "search_found"
    /\ search_term = <<"b">>
    /\ editor_text = Scenario
    /\ editor_cursor = <<1, 0>>
    /\ sb_cursor_line = 3
    /\ sb_cursor_col = 3

(* C10: submitting a path that does not exist, submitting an empty path    *)
(* or cancelling the open-file dialog leaves content, baseline, path,       *)
(* language label, modified flag and cursor unchanged.                      *)
C10_OpenWithoutLoadChangesNothing ==
    [][last'.ev \in {"open_notfound", "open_empty", "open_cancel"} =>
          UNCHANGED <<editor_text, current_content, original_content,
                      file_path, sb_file_path, language, sb_language,
                      sb_modified, editor_cursor>>]_vars

C10_Witness ==
    /\ last.ev = "open_notfound"
    /\ sb_modified
    /\ editor_text # original_content

(* the editor is about to start with a path argument that does not exist *)
StartsWithMissingPath ==
    phase = "constructed" /\ Truthy(file_path) /\ ~Exists(file_path)

(* C11 as claimed: started with a path argument that does not exist, the   *)
(* document has no backing path, the status bar shows Untitled, and the     *)
(* Save that follows writes to untitled.txt.                                *)
C11_StartsUntitledAsClaimed ==
    [][/\ (StartsWithMissingPath =>
              /\ editor_text' = <<>>
              /\ file_path' = NoPath
              /\ StatusFilename' = "Untitled")
       /\ (last.ev = "mount_empty" /\ last'.ev = "save_ok" =>
              /\ file_path' = "untitled.txt"
              /\ fs'["untitled.txt"].kind = "file")]_vars

(* C11, amended: started with a path argument p that does not exist, the   *)
(* editor starts with an empty, unmodified document whose backing path is   *)
(* p; the status bar shows p's file name; a successful Save made while the  *)
(* path is p writes the content to p and to no other file (to untitled.txt  *)
(* when p is the literal name Untitled).                                    *)
C11_StartupKeepsMissingPath ==
    [][/\ (StartsWithMissingPath =>
              /\ last'.ev = "mount_empty"
              /\ editor_text' = <<>>
              /\ original_content' = <<>>
              /\ ~sb_modified'
              /\ file_path' = file_path
              /\ StatusFilename' = file_path)
       /\ (last'.ev = "save_ok" /\ file_path \in {"new.txt", "Untitled"} =>
              LET target == IF file_path = "Untitled" THEN "untitled.txt"
                            ELSE file_path
              IN  /\ file_path' = target
                  /\ fs'[target] = [kind |-> "file", content |-> editor_text]
                  /\ \A q \in DOMAIN fs \ {target} : fs'[q] = fs[q])]_vars

C11_Witness ==
    /\ last.ev = "save_ok"
    /\ file_path = "new.txt"
    /\ sb_file_path = "new.txt"
    /\ fs["new.txt"] = [kind |-> "file", content |-> <<"b">>]
    /\ fs["untitled.txt"].kind = "missing"

(* the events of a search: opening the dialog, and its dismissal with a   *)
(* term that matches, a term that does not, an empty term, or by escape     *)
SearchEvents ==
    {"search_open", "search_found", "search_notfound", "search_empty",
     "search_cancel"}

(* C12: a search never changes content, baseline, path or the modified     *)
(* flag (nor the disk); when it finds no match, or when the submitted term  *)
(* is empty, the cursor position is unchanged as well.                      *)
C12_SearchFrame ==
    [][last'.ev \in SearchEvents =>
          /\ editor_text' = editor_text
          /\ current_content' = current_content
          /\ original_content' = original_content
          /\ file_path' = file_path
          /\ sb_modified' = sb_modified
          /\ fs' = fs
          /\ (last'.ev # "search_found" =>
                 editor_cursor' = editor_cursor)]_vars

C12_Witness ==
    /\ last.ev = "search_notfound"
    /\ search_term = <<"b">>
    /\ editor_text = <<"b">>
    /\ editor_cursor = <<0, 1>>
    /\ sb_modified

(* the positions (line, column), 0-based, at which term occurs in text:    *)
(* the characters of the line from that column on start with term           *)
Occurrences(text, term) ==
    {p \in Positions(text, Len(text)) :
        LET ln == Split(text)[p[1] + 1]
        IN  /\ p[2] + Len(term) <= Len(ln)
            /\ \A k \in 1..Len(term) : ln[p[2] + k] = term[k]}

(* the occurrences a search from cursor from can reach: those on the       *)
(* cursor's line at or after the cursor column, and those on other lines    *)
Scanned(text, from, term) ==
    {p \in Occurrences(text, term) : p[1] # from[1] \/ p[2] >= from[2]}

(* the place of line l in the scan that starts on line L of n lines         *)
ScanRank(l, L, n) == IF l >= L THEN l - L ELSE l + n - L

(* p is the first scanned occurrence in scan order *)
FirstInScan(p, text, from, term) ==
    LET n == Len(Split(text))
        rank(q) == ScanRank(q[1], from[1], n)
    IN  /\ p \in Scanned(text, from, term)
        /\ \A q \in Scanned(text, from, term) :
               \/ rank(p) < rank(q)
               \/ rank(p) = rank(q) /\ p[2] <= q[2]

(* C13: whenever a search for a non-empty term from cursor (L,C) moves the *)
(* cursor to (l,c), the term occurs in line l starting at column c, and     *)
(* (l,c) is the first occurrence in scan order: line L at columns >= C,     *)
(* then lines L+1 to the last, then lines 0 to L-1, earliest column within  *)
(* a line; the match is literal and case-sensitive.                         *)
C13_FoundIsFirstInScanOrder ==
    [][last'.ev = "search_found" =>
          /\ search_term' # <<>>
          /\ editor_cursor' \in Occurrences(editor_text, search_term')
          /\ FirstInScan(editor_cursor', editor_text, editor_cursor,
                         search_term')]_vars

(* a search for "b" from (3,0), the last line of the scenario text, has    *)
(* wrapped around to (1,0); the status bar still shows the cursor position  *)
(* the search started from                                                  *)
C13_Witness ==
    /\ last.ev = "search_found"
    /\ search_term = <<"b">>
    /\ editor_text = Scenario
    /\ editor_cursor = <<1, 0>>
    /\ sb_cursor_line = 4 /\ sb_cursor_col = 1

(* C14: a search for a non-empty term from cursor (L,C) reports "not       *)
(* found" if and only if the term has no occurrence starting at column      *)
(* >= C on line L and no occurrence on any other line; an occurrence on     *)
(* line L that starts before column C is never the position found.          *)
C14_NotFoundIffNothingScanned ==
    [][last'.ev \in {"search_found", "search_notfound"} =>
          /\ search_term' # <<>>
          /\ (last'.ev = "search_notfound" <=>
                 Scanned(editor_text, editor_cursor, search_term') = {})
          /\ (last'.ev = "search_found" =>
                 ~(/\ editor_cursor'[1] = editor_cursor[1]
                   /\ editor_cursor'[2] < editor_cursor[2]))]_vars

(* "b" occurs twice in the line "bab", both times before the cursor at     *)
(* column 3: the search reported not found                                  *)
C14_Witness ==
    /\ last.ev = "search_notfound"
    /\ search_term = <<"b">>
    /\ editor_text = <<"b", "a", "b">>
    /\ editor_cursor = <<0, 3>>
    /\ Occurrences(editor_text, search_term) = {<<0, 0>>, <<0, 2>>}

(* C15: after every content-changing event and every cursor-move event is *)
(* processed, the status bar's Line and Col are the surface's cursor line+1 *)
(* and column+1, and the gutter's current-line marker is on that same line. *)
C15_CursorDisplaysAgree ==
    [][last'.ev \in {"changed", "moved"} =>
          /\ sb_cursor_line' = editor_cursor'[1] + 1
          /\ sb_cursor_col' = editor_cursor'[2] + 1
          /\ ln_current_line' = editor_cursor'[1] + 1]_vars

(* C16: in every reachable state of the running editor, after any         *)
(* sequence of edit, Save, Quit, open-file and search events, the modified  *)
(* marker shown in the status bar equals (content # baseline); in           *)
(* particular after a Quit that only warned and after a load.               *)
C16_FlagAlwaysExact ==
    phase = "running" => (sb_modified <=> (editor_text # original_content))

(* the document's path names a readable file; its content is then the     *)
(* text last loaded from or successfully saved to disk, since only a        *)
(* successful load or Save makes a readable file the document's path and    *)
(* only a successful Save writes to it                                      *)
HasDiskText == Truthy(file_path) /\ Exists(file_path) /\ CanRead(file_path)

DiskText == fs[file_path].content

(* the condition under which CodeEditor.action_quit calls self.exit() *)
QuitWouldExit == MainActive /\ editor_text = original_content

(* C17: a Quit never exits the process while the content differs from the  *)
(* text last loaded from or successfully saved to disk, unless a warning    *)
(* was shown by a Quit issued after the most recent content change. Stated  *)
(* for the state an edit, undo or redo leaves behind, where no warning     *)
(* lies after the most recent content change: if it changed the content and *)
(* the new content differs from the text on disk, a Quit issued next does   *)
(* not exit.                                                                *)
C17_NoExitWithUnwarnedChanges ==
    [][(/\ last'.ev \in {"changed", "undo", "redo"}
        /\ editor_text' # editor_text
        /\ HasDiskText'
        /\ editor_text' # DiskText') => ~QuitWouldExit']_vars

(* C18: after a successful search for term t has placed the cursor at     *)
(* (l,c), an immediately repeated search for t finds the same position:     *)
(* the cursor stays at (l,c) and "found" is reported again. A successful    *)
(* search leaves the cursor on an occurrence of t and t as the remembered   *)
(* term, and only opening the dialog lies between the two searches, so the  *)
(* property is stated for every search that repeats the remembered term     *)
(* while the cursor is on an occurrence of it.                              *)
C18_RepeatedSearchStays ==
    [][(/\ modal = "search"
        /\ search_term # <<>>
        /\ editor_cursor \in Occurrences(editor_text, search_term)
        /\ search_term' = search_term
        /\ last'.ev \in {"search_found", "search_notfound"}) =>
          /\ last'.ev = "search_found"
          /\ editor_cursor' = editor_cursor]_vars

(* a search for "b" in "bab" from (0,1), where the status bar still shows  *)
(* the cursor, has found the second "b" at (0,2)                            *)
C18_Witness ==
    /\ last.ev = "search_found"
    /\ search_term = <<"b">>
    /\ editor_text = <<"b", "a", "b">>
    /\ editor_cursor = <<0, 2>>
    /\ sb_cursor_line = 1 /\ sb_cursor_col = 2

=============================================================================
